---- MODULE Spec2Model ----
(***************************************************************************)
(* A model of grll/cache-manager (src/cache_manager/cache_manager.py): a   *)
(* pickle based cache of function results, one file per key in one folder. *)
(*                                                                         *)
(* The cache folder is a table of directory entries (files) pointing to    *)
(* inodes; an open file keeps its inode, as on POSIX.  A Python str is a    *)
(* sequence of ASCII code points, a file's content a sequence of bytes.     *)
(* Every method of CacheManager is cut at its system calls: the stat of     *)
(* isfile, the open, each transfer of a read or a write, the close.  One    *)
(* thread runs the methods one after the other (Spec); two threads          *)
(* interleave them at these steps (SpecConc).  A read or a write moves at    *)
(* most BlockSize bytes: the byte strings are short, and stand for a        *)
(* payload larger than one buffer of the runtime.  SpecFail is Spec with    *)
(* stores that fail: values pickle cannot serialize and writes the system   *)
(* refuses.  SpecLock is two threads whose callers hold a lock per key      *)
(* around each call.                                                        *)
(***************************************************************************)
EXTENDS Integers, Sequences, FiniteSets, TLC

VARIABLES
    threads,        \* the threads that call into the cache manager
    keys,           \* the keys these threads use
    funcs,          \* the functions these threads pass to cachify and memoize
    faults,         \* whether stores can fail in this run
    locking,        \* whether the callers hold a lock per key around each call
    quota,          \* the calls these threads may still make
    cache_manager,  \* the CacheManager instance: constructed, cache_folder_path
    files,          \* directory entries: path -> inode number, 0 when there is no file
    inodes,         \* inode number -> the bytes of the file
    wrapper,        \* the function decorated by memoize: its key and its func
    pc,             \* per thread: the line it is at
    frame,          \* per thread: the locals of the call it is in
    ret,            \* per thread: what its call returned or raised
    origin,         \* history, per key: the call that decided the entry
    computed,       \* history, per key: func calls that returned since the last clear
    lastStored,     \* history, per key: the last store that completed, and the
                    \* value of the store that wrote its last block latest
    everStored,     \* history, per key: a store was started
    removed,        \* history, per key: what the entry held when it was last
                    \* removed, until the next store of the key
    written         \* history, per inode: the store that last opened it

vars == <<threads, keys, funcs, faults, locking, quota, cache_manager, files, inodes, wrapper, pc,
          frame, ret, origin, computed, lastStored, everStored, removed, written>>

-----------------------------------------------------------------------------
(* Bounds and inputs *)

\* Inodes of the model's file system: one per entry path and open file.
NumInodes == 3

\* The bytes one read or one write of a file moves: the buffer of the
\* runtime, scaled down to the short payloads of the model.
BlockSize == 7

\* The calls of one run of one thread, and of one run of two threads.
MaxCalls == 5

MaxConcCalls == 3

\* The calls of one run of one thread whose stores can fail.
MaxFaultCalls == 5

\* The calls of one run of two threads under a lock per key.
MaxLockCalls == 3

ThreadIds == {"t1", "t2"}

\* The strings the tests hash.
Keys == {"test", "abc"}

\* "x" "y" "z" and "k" "m" "n": the arguments (A,B,C) and (X,Y,Z) of a call.
ArgSets == { << <<120>>, <<121>>, <<122>> >>, << <<107>>, <<109>>, <<110>> >> }

\* Values stored directly: "xyz" and "w".
Values == { <<120, 121, 122>>, <<119>> }

Funcs == {"expensive_function", "raising_function"}

\* A function defined inside another one: an object pickle cannot serialize.
Lambda == <<-1>>

\* The values and the functions of a run whose stores can fail:
\* closure_function returns a Lambda.
Unpicklable == IF faults THEN {Lambda} ELSE {}

FaultyFuncs == IF faults THEN {"closure_function"} ELSE {}

\* Whether the system refuses a write (OSError: no space left, file too large).
WriteFails == IF faults THEN BOOLEAN ELSE {FALSE}

\* The paths a CacheManager is constructed over: a folder, a regular file, nothing.
FsKind == [p \in {"/cache", "/notes.txt", "/missing"} |->
             CASE p = "/cache" -> "dir"
               [] p = "/notes.txt" -> "file"
               [] OTHER -> "none"]

-----------------------------------------------------------------------------
(* Pure functions *)

str_hash_mapping ==
    [k \in Keys |->
       CASE k = "test" -> "9f86d081884c7d659a2feaa0c55ad015a3bf4f1b2b0b822cd15d6c15b0f00a08"
         [] k = "abc" -> "ba7816bf8f01cfea414140de5dae2223b00361a396177a9cb410ff61f20015ad"]

\* A digest that is the same for every key.
str_to_hash_constant(s) == str_hash_mapping["test"]

\* sha256(str_to_hash.encode("utf8")).hexdigest(), tabulated on Keys.
str_to_hash(s) == str_hash_mapping[s]

\* A file name without the suffix.
str_to_filename_no_suffix(s) == str_to_hash(s)

str_to_filename(s) == str_to_hash(s) \o ".pickle"

\* os.path.join of a folder without a trailing separator and a relative name.
join(a, b) == a \o "/" \o b

\* os.path.exists in the place of isdir.
exists(path) == path \in DOMAIN FsKind /\ FsKind[path] # "none"

isdir(path) == path \in DOMAIN FsKind /\ FsKind[path] = "dir"

EntryPaths == { join(d, str_to_filename(k)) : d \in {p \in DOMAIN FsKind : isdir(p)}, k \in Keys }

isfile(path) == path \in EntryPaths /\ files[path] # 0

\* def expensive_function(a, b, c): return a + b + c
expensive_function(args) == args[1] \o args[2] \o args[3]

\* func(*args, **kwargs) for a func that returns
call(f, args) == IF f = "closure_function" THEN Lambda ELSE expensive_function(args)

-----------------------------------------------------------------------------
(* pickle, protocol 4, on str values shorter than 256 bytes *)

\* pickle.dump(obj, f): PROTO 4, FRAME and its 8 byte length, SHORT_BINUNICODE
\* and its length byte, the UTF-8 bytes, MEMOIZE, STOP.
dumps(obj) ==
    <<128, 4, 149, Len(obj) + 4, 0, 0, 0, 0, 0, 0, 0, 140, Len(obj)>> \o obj \o <<148, 46>>

Loaded(v) == [ok |-> TRUE, val |-> v, exc |-> "", more |-> FALSE]

\* A failure of pickle.load; more: the unpickler ran out of bytes.
Failed(e, m) == [ok |-> FALSE, val |-> <<>>, exc |-> e, more |-> m]

\* The length of a frame, little endian; 2^24 and more is longer than any file here.
FrameLen(b, pos) ==
    IF \E i \in 4..8 : b[pos + i] # 0 THEN 16777216
    ELSE b[pos + 1] + 256 * b[pos + 2] + 65536 * b[pos + 3]

\* The unpickler's loop over opcodes, at byte pos with the given stack.
RECURSIVE load_from(_, _, _)
load_from(b, pos, stack) ==
    IF pos > Len(b) THEN Failed("EOFError", TRUE)
    ELSE CASE b[pos] = 128 ->
                IF pos + 1 > Len(b) THEN Failed("UnpicklingError", TRUE)
                ELSE IF b[pos + 1] > 5 THEN Failed("ValueError", FALSE)
                ELSE load_from(b, pos + 2, stack)
           [] b[pos] = 149 ->
                IF pos + 8 > Len(b) THEN Failed("UnpicklingError", TRUE)
                ELSE IF pos + 8 + FrameLen(b, pos) > Len(b) THEN Failed("UnpicklingError", TRUE)
                ELSE load_from(b, pos + 9, stack)
           [] b[pos] = 140 ->
                IF pos + 1 > Len(b) THEN Failed("UnpicklingError", TRUE)
                ELSE IF pos + 1 + b[pos + 1] > Len(b) THEN Failed("UnpicklingError", TRUE)
                ELSE LET data == SubSeq(b, pos + 2, pos + 1 + b[pos + 1])
                     IN  IF \E i \in 1..Len(data) : data[i] >= 128
                         THEN Failed("UnicodeDecodeError", FALSE)
                         ELSE load_from(b, pos + 2 + Len(data), Append(stack, data))
           [] b[pos] = 148 ->
                IF stack = <<>> THEN Failed("UnpicklingError", FALSE)
                ELSE load_from(b, pos + 1, stack)
           [] b[pos] = 46 ->
                IF stack = <<>> THEN Failed("UnpicklingError", FALSE)
                ELSE Loaded(stack[Len(stack)])
           [] OTHER -> Failed("UnpicklingError", FALSE)

\* pickle.load(f) on a file holding the bytes b.
loads(b) == load_from(b, 1, <<>>)

\* Whether pickle.dump serializes obj; it raises before any byte is written
\* when it does not.
picklable(obj) == obj # Lambda

-----------------------------------------------------------------------------
(* State *)

\* An entry: whether the file exists, and its bytes.
NoEntry == [has |-> FALSE, data |-> <<>>]

\* What a removed entry held: nothing was removed.
NoRemoval == [set |-> FALSE, was |-> Failed("", FALSE)]

\* The locals of a call.  peeked: the unpickler's first look at the file
\* (peek) found no byte, and its read comes next.  hit, ran, torn, expect,
\* prior and gone are history:
\* what has_in_cache answered, whether func was called, whether the file read
\* was emptied under the reader or written by two stores, the value of the
\* store whose bytes the reader's file holds, the entry as it was when the
\* call opened it for writing, and what the last removal of the key took away
\* when cachify looked the key up.
NoFrame ==
    [op |-> "none", via |-> "", cache_folder_path |-> "", str_to_hash |-> "",
     func |-> "", args |-> <<>>, value |-> <<>>, ino |-> 0, off |-> 0, buf |-> <<>>,
     peeked |-> FALSE,
     hit |-> FALSE, ran |-> FALSE, torn |-> FALSE, expect |-> <<>>,
     prior |-> NoEntry, gone |-> NoRemoval]

NoRet == [status |-> "none", val |-> <<>>, flag |-> FALSE, exc |-> ""]

Returned(v) == [status |-> "return", val |-> v, flag |-> FALSE, exc |-> ""]

ReturnedBool(b) == [status |-> "return", val |-> <<>>, flag |-> b, exc |-> ""]

Raised(e) == [status |-> "raise", val |-> <<>>, flag |-> FALSE, exc |-> e]

NoOrigin == [by |-> "none", func |-> "", args |-> <<>>, val |-> <<>>]

\* set: a store completed, of value val; over: it replaced a different value;
\* alone: no other store had the file open meanwhile; wrote: the value of the
\* store that wrote its last block latest.
NoValue == [set |-> FALSE, val |-> <<>>, over |-> FALSE, alone |-> FALSE, wrote |-> <<>>]

\* val: the value of the store that last opened the inode; mixed: another
\* store had it open then.
NoWrite == [val |-> <<>>, mixed |-> FALSE]

InitWith(T, K, F, n, f, l) ==
    /\ threads = T
    /\ keys = K
    /\ funcs = F
    /\ faults = f
    /\ locking = l
    /\ quota = n
    /\ cache_manager = [constructed |-> FALSE, cache_folder_path |-> ""]
    /\ files = [path \in EntryPaths |-> 0]
    /\ inodes = [i \in 1..NumInodes |-> <<>>]
    /\ wrapper = [set |-> FALSE, str_to_hash |-> "", func |-> ""]
    /\ pc = [p \in ThreadIds |-> "idle"]
    /\ frame = [p \in ThreadIds |-> NoFrame]
    /\ ret = [p \in ThreadIds |-> NoRet]
    /\ origin = [k \in Keys |-> NoOrigin]
    /\ computed = [k \in Keys |-> 0]
    /\ lastStored = [k \in Keys |-> NoValue]
    /\ everStored = [k \in Keys |-> FALSE]
    /\ removed = [k \in Keys |-> NoRemoval]
    /\ written = [i \in 1..NumInodes |-> NoWrite]

\* One caller: an empty cache folder, no CacheManager yet.
Init == InitWith({"t1"}, Keys, Funcs, MaxCalls, FALSE, FALSE)

\* Two callers on the same folder and the same key, with a func that returns.
InitConc == InitWith(ThreadIds, {"test"}, {"expensive_function"}, MaxConcCalls, FALSE, FALSE)

\* One caller whose stores can fail.
InitFail == InitWith({"t1"}, {"test"}, Funcs, MaxFaultCalls, TRUE, FALSE)

\* Two callers that hold the lock of a key around each call on it.
InitLock == InitWith(ThreadIds, Keys, Funcs, MaxLockCalls, FALSE, TRUE)

\* join(self.cache_folder_path, self.str_to_filename(str_to_hash))
PathOf(k) == join(cache_manager.cache_folder_path, str_to_filename(k))

\* A has_in_cache that forgets the cache folder.
has_in_cache_no_folder(k) == isfile(str_to_filename(k))

\* def has_in_cache(self, str_to_hash): return isfile(join(...))
has_in_cache(k) == isfile(PathOf(k))

\* The inode a new file gets: the lowest that has no entry and is not open.
NewInode ==
    CHOOSE i \in 1..NumInodes :
        /\ \A path \in EntryPaths : files[path] # i
        /\ \A q \in ThreadIds : frame[q].ino # i
        /\ \A j \in 1..(i - 1) : \/ \E path \in EntryPaths : files[path] = j
                                 \/ \E q \in ThreadIds : frame[q].ino = j

\* Inode i is gone once thread p has closed it: no entry of fs and no other
\* open file refer to it.
Gone(p, i, fs) ==
    /\ \A path \in EntryPaths : fs[path] # i
    /\ \A q \in ThreadIds \ {p} : frame[q].ino # i

Min(a, b) == IF a <= b THEN a ELSE b

\* A file's bytes after seg is written at offset off; a gap reads as zeros.
WriteAt(data, off, seg) ==
    LET pad == [i \in 1..(off - Len(data)) |-> 0]
        head == IF Len(data) >= off THEN SubSeq(data, 1, off) ELSE data \o pad
        tail == SubSeq(data, off + Len(seg) + 1, Len(data))
    IN  head \o seg \o tail

Scenario == <<threads, keys, funcs, faults, locking>>

History == <<origin, computed, lastStored, everStored>>

Callable(p) ==
    /\ p \in threads /\ pc[p] = "idle" /\ cache_manager.constructed
    /\ quota > 0
    /\ quota' = quota - 1

\* Callers that take no lock.
Unlocked(p, k) == TRUE

\* The lock of key k, taken by the caller before the call and released when
\* the call is back: no other thread is in a call on k.
Free(p, k) ==
    locking => \A q \in threads \ {p} : pc[q] = "idle" \/ frame[q].str_to_hash # k

-----------------------------------------------------------------------------
(* The methods of CacheManager, step by step *)

Finish(p, r) ==
    /\ pc' = [pc EXCEPT ![p] = "done"]
    /\ ret' = [ret EXCEPT ![p] = r]

\* Thread p closes inode i: the inode is dropped when nothing refers to it.
CloseFile(p, i) ==
    /\ inodes' = IF Gone(p, i, files) THEN [inodes EXCEPT ![i] = <<>>] ELSE inodes
    /\ written' = IF Gone(p, i, files) THEN [written EXCEPT ![i] = NoWrite] ELSE written

\* The thread's frame once the with statement is left.
Closed(p) ==
    [frame EXCEPT ![p].ino = 0, ![p].off = 0, ![p].buf = <<>>, ![p].peeked = FALSE]

\* def __init__(self, cache_folder_path): assert isdir(cache_folder_path)
Construct(p, path) ==
    /\ p \in threads /\ pc[p] = "idle" /\ ~cache_manager.constructed
    /\ frame' = [frame EXCEPT ![p] = [NoFrame EXCEPT !.op = "__init__", !.cache_folder_path = path]]
    /\ IF isdir(path)
       THEN /\ cache_manager' = [constructed |-> TRUE, cache_folder_path |-> path]
            /\ Finish(p, Returned(<<>>))
       ELSE /\ UNCHANGED cache_manager
            /\ Finish(p, Raised("AssertionError"))
    /\ UNCHANGED <<Scenario, removed, quota, files, inodes, wrapper, History, written>>

\* def has_in_cache(self, str_to_hash): the call, one stat of the path
HasInCache(p, k) ==
    /\ Callable(p) /\ Free(p, k)
    /\ frame' = [frame EXCEPT ![p] = [NoFrame EXCEPT !.op = "has_in_cache", !.str_to_hash = k]]
    /\ Finish(p, ReturnedBool(has_in_cache(k)))
    /\ UNCHANGED <<Scenario, removed, cache_manager, files, inodes, wrapper, History, written>>

\* A clear_from_cache that is silent when there is nothing to remove.
RemoveMissingSilent == Returned(<<>>)

\* os.remove(path) on a path with no file
RemoveMissing == Raised("FileNotFoundError")

\* A clear_from_cache that reports the removal and leaves the file.
ClearKeepsFile(p, k) ==
    /\ Callable(p) /\ Free(p, k)
    /\ frame' = [frame EXCEPT ![p] = [NoFrame EXCEPT !.op = "clear_from_cache", !.str_to_hash = k]]
    /\ IF isfile(PathOf(k))
       THEN /\ removed' = [removed EXCEPT ![k] = [set |-> TRUE, was |-> loads(inodes[files[PathOf(k)]])]]
            /\ Finish(p, Returned(<<>>))
       ELSE /\ UNCHANGED removed
            /\ Finish(p, RemoveMissing)
    /\ UNCHANGED <<Scenario, cache_manager, files, inodes, wrapper, History, written>>

\* def clear_from_cache(self, str_to_hash): remove(join(...))
ClearFromCache(p, k) ==
    /\ Callable(p) /\ Free(p, k)
    /\ frame' = [frame EXCEPT ![p] = [NoFrame EXCEPT !.op = "clear_from_cache", !.str_to_hash = k]]
    /\ IF isfile(PathOf(k))
       THEN LET fs == [files EXCEPT ![PathOf(k)] = 0]
                i == files[PathOf(k)]
            IN  /\ files' = fs
                /\ inodes' = IF Gone(p, i, fs) THEN [inodes EXCEPT ![i] = <<>>] ELSE inodes
                /\ written' = IF Gone(p, i, fs) THEN [written EXCEPT ![i] = NoWrite] ELSE written
                /\ origin' = [origin EXCEPT ![k] = NoOrigin]
                /\ computed' = [computed EXCEPT ![k] = 0]
                /\ lastStored' = [lastStored EXCEPT ![k] = NoValue]
                /\ removed' = [removed EXCEPT ![k] = [set |-> TRUE, was |-> loads(inodes[i])]]
                /\ Finish(p, Returned(<<>>))
       ELSE /\ UNCHANGED <<files, inodes, written, origin, computed, lastStored, removed>>
            /\ Finish(p, RemoveMissing)
    /\ UNCHANGED <<Scenario, cache_manager, wrapper, everStored>>

\* def retrieve_from_cache(self, str_to_hash): the call
RetrieveFromCache(p, k) ==
    /\ Callable(p) /\ Free(p, k)
    /\ frame' = [frame EXCEPT ![p] = [NoFrame EXCEPT !.op = "retrieve_from_cache", !.str_to_hash = k]]
    /\ pc' = [pc EXCEPT ![p] = "open_rb"]
    /\ UNCHANGED <<Scenario, removed, cache_manager, files, inodes, wrapper, ret, History, written>>

\* def put_in_cache(self, str_to_hash, obj_to_cache): the call
PutInCache(p, k, v) ==
    /\ Callable(p) /\ Free(p, k)
    /\ frame' = [frame EXCEPT ![p] = [NoFrame EXCEPT !.op = "put_in_cache", !.str_to_hash = k,
                                                     !.value = v]]
    /\ pc' = [pc EXCEPT ![p] = "open_wb"]
    /\ UNCHANGED <<Scenario, removed, cache_manager, files, inodes, wrapper, ret, History, written>>

\* The frame of cachify(str_to_hash, func, *args), called directly or by a wrapper.
CachifyFrame(via, k, f, args) ==
    [NoFrame EXCEPT !.op = "cachify", !.via = via, !.str_to_hash = k, !.func = f, !.args = args]

\* def cachify(self, str_to_hash, func, *args, **kwargs): the call
Cachify(p, k, f, args) ==
    /\ Callable(p) /\ Free(p, k)
    /\ frame' = [frame EXCEPT ![p] = CachifyFrame("cachify", k, f, args)]
    /\ pc' = [pc EXCEPT ![p] = "check"]
    /\ UNCHANGED <<Scenario, removed, cache_manager, files, inodes, wrapper, ret, History, written>>

\* def memoize(self, str_to_hash) applied to func: builds the wrapper, calls nothing
Memoize(p, k, f) ==
    /\ Callable(p)
    /\ wrapper' = [set |-> TRUE, str_to_hash |-> k, func |-> f]
    /\ UNCHANGED <<Scenario, removed, cache_manager, files, inodes, pc, frame, ret, History, written>>

\* A wrapper that calls func without going through cachify's lookup.
WrapperSkipsLookup(p, args) ==
    /\ Callable(p) /\ Free(p, wrapper.str_to_hash)
    /\ wrapper.set
    /\ frame' = [frame EXCEPT ![p] = CachifyFrame("wrapper", wrapper.str_to_hash, wrapper.func, args)]
    /\ pc' = [pc EXCEPT ![p] = "call"]
    /\ UNCHANGED <<Scenario, removed, cache_manager, files, inodes, wrapper, ret, History, written>>

\* def wrapper(*args, **kwargs): return self.cachify(str_to_hash, func, *args, **kwargs)
Wrapper(p, args) ==
    /\ Callable(p) /\ Free(p, wrapper.str_to_hash)
    /\ wrapper.set
    /\ frame' = [frame EXCEPT ![p] = CachifyFrame("wrapper", wrapper.str_to_hash, wrapper.func, args)]
    /\ pc' = [pc EXCEPT ![p] = "check"]
    /\ UNCHANGED <<Scenario, removed, cache_manager, files, inodes, wrapper, ret, History, written>>

\* A cachify that never looks into the cache.
CachifyBranchAlwaysCalls(hit) == "call"

\* cachify: the branch taken on self.has_in_cache(str_to_hash)
CachifyBranch(hit) == IF hit THEN "open_rb" ELSE "call"

\* cachify: if self.has_in_cache(str_to_hash)
Check(p) ==
    /\ p \in threads /\ pc[p] = "check"
    /\ frame' = [frame EXCEPT ![p].hit = has_in_cache(frame[p].str_to_hash),
                              ![p].gone = removed[frame[p].str_to_hash]]
    /\ pc' = [pc EXCEPT ![p] = CachifyBranch(has_in_cache(frame[p].str_to_hash))]
    /\ UNCHANGED <<Scenario, removed, quota, cache_manager, files, inodes, wrapper, ret, History, written>>

\* The history of key k once a call of func has ended in outcome by.
Decided(k, by, f, args, v) ==
    IF origin[k].by \in {"none", "raise"}
    THEN [origin EXCEPT ![k] = [by |-> by, func |-> f, args |-> args, val |-> v]]
    ELSE origin

\* A cachify that catches the error of func and stores None (here the empty str).
CallFuncSwallows(p) ==
    /\ p \in threads /\ pc[p] = "call"
    /\ LET k == frame[p].str_to_hash
           v == IF frame[p].func = "expensive_function"
                THEN expensive_function(frame[p].args) ELSE <<>>
       IN  /\ frame' = [frame EXCEPT ![p].value = v, ![p].ran = TRUE]
           /\ pc' = [pc EXCEPT ![p] = "open_wb"]
           /\ computed' = [computed EXCEPT ![k] = @ + 1]
           /\ origin' = Decided(k, frame[p].via, frame[p].func, frame[p].args, v)
           /\ UNCHANGED ret
    /\ UNCHANGED <<Scenario, removed, quota, cache_manager, files, inodes, wrapper, lastStored, everStored,
                   written>>

\* cachify: return_value = func(*args, **kwargs)
CallFunc(p) ==
    /\ p \in threads /\ pc[p] = "call"
    /\ LET k == frame[p].str_to_hash
       IN  IF frame[p].func # "raising_function"
           THEN LET v == call(frame[p].func, frame[p].args)
                IN  /\ frame' = [frame EXCEPT ![p].value = v, ![p].ran = TRUE]
                    /\ pc' = [pc EXCEPT ![p] = "open_wb"]
                    /\ computed' = [computed EXCEPT ![k] = @ + 1]
                    /\ origin' = Decided(k, frame[p].via, frame[p].func, frame[p].args, v)
                    /\ UNCHANGED ret
           ELSE /\ frame' = [frame EXCEPT ![p].ran = TRUE]
                /\ Finish(p, Raised("RuntimeError"))
                /\ origin' = Decided(k, "raise", "", <<>>, <<>>)
                /\ UNCHANGED computed
    /\ UNCHANGED <<Scenario, removed, quota, cache_manager, files, inodes, wrapper, lastStored, everStored,
                   written>>

\* open(path, mode="rb") on a path with no file
OpenMissing == Raised("FileNotFoundError")

\* retrieve_from_cache: open(join(...), mode="rb")
OpenRead(p) ==
    /\ p \in threads /\ pc[p] = "open_rb"
    /\ IF isfile(PathOf(frame[p].str_to_hash))
       THEN LET i == files[PathOf(frame[p].str_to_hash)]
            IN  /\ frame' = [frame EXCEPT ![p].ino = i, ![p].torn = written[i].mixed,
                                          ![p].expect = written[i].val]
                /\ pc' = [pc EXCEPT ![p] = "read"]
                /\ UNCHANGED ret
       ELSE /\ Finish(p, OpenMissing)
            /\ UNCHANGED frame
    /\ UNCHANGED <<Scenario, removed, quota, cache_manager, files, inodes, wrapper, History, written>>

\* A retrieve_from_cache that takes the value out of the cache: the entry is
\* removed once it is loaded.
ReadConsumes(p) ==
    /\ p \in threads /\ pc[p] = "read"
    /\ LET i == frame[p].ino
           r == loads(inodes[i])
       IN  /\ Finish(p, IF r.ok THEN Returned(r.val) ELSE Raised(r.exc))
           /\ frame' = Closed(p)
           /\ files' = [path \in EntryPaths |-> IF files[path] = i THEN 0 ELSE files[path]]
           /\ inodes' = [inodes EXCEPT ![i] = <<>>]
           /\ written' = [written EXCEPT ![i] = NoWrite]
    /\ UNCHANGED <<Scenario, removed, quota, cache_manager, wrapper, History>>

\* retrieve_from_cache: pickle.load(f), one read of the file at a time.
\* The unpickler first peeks at the file and then reads what the peek did not
\* give: on a file that is empty at the peek it reads once more, and raises
\* EOFError only when that read finds no byte either.  After the last read the
\* file is still open.
Read(p) ==
    /\ p \in threads /\ pc[p] = "read"
    /\ LET i == frame[p].ino
           data == inodes[i]
           off == frame[p].off
           buf == frame[p].buf \o SubSeq(data, off + 1, off + Min(BlockSize, Len(data) - off))
           r == loads(buf)
       IN  IF off = 0 /\ Len(data) = 0 /\ ~frame[p].peeked
           THEN /\ frame' = [frame EXCEPT ![p].peeked = TRUE]
                /\ UNCHANGED <<pc, ret, inodes, written>>
           ELSE /\ frame' = [frame EXCEPT ![p].off = Len(buf), ![p].buf = buf,
                                          ![p].peeked = FALSE]
                /\ pc' = [pc EXCEPT ![p] = IF off >= Len(data) \/ r.ok \/ ~r.more
                                           THEN "close_rb" ELSE "read"]
                /\ UNCHANGED <<ret, inodes, written>>
    /\ UNCHANGED <<Scenario, removed, quota, cache_manager, files, wrapper, History>>

\* retrieve_from_cache: the with statement closes the file; the call returns
\* what pickle.load(f) returned, or raises what it raised
CloseRead(p) ==
    /\ p \in threads /\ pc[p] = "close_rb"
    /\ LET r == loads(frame[p].buf)
       IN  Finish(p, IF r.ok THEN Returned(r.val) ELSE Raised(r.exc))
    /\ frame' = Closed(p)
    /\ CloseFile(p, frame[p].ino)
    /\ UNCHANGED <<Scenario, removed, quota, cache_manager, files, wrapper, History>>

\* A file opened for update: its bytes stay.
OpenedForUpdate(mode, data) == data

\* The bytes of a file just opened with the given mode.
Opened(mode, data) == IF mode = "wb" THEN <<>> ELSE data

\* put_in_cache: open(join(...), mode="wb") makes the file or empties it
OpenWrite(p) ==
    /\ p \in threads /\ pc[p] = "open_wb"
    /\ LET k == frame[p].str_to_hash
           i == IF isfile(PathOf(k)) THEN files[PathOf(k)] ELSE NewInode
       IN  /\ files' = [files EXCEPT ![PathOf(k)] = i]
           /\ inodes' = [inodes EXCEPT ![i] = Opened("wb", @)]
           /\ frame' = [q \in ThreadIds |->
                          IF q = p
                          THEN [frame[p] EXCEPT !.ino = i,
                                                !.prior = IF isfile(PathOf(k))
                                                          THEN [has |-> TRUE, data |-> inodes[i]]
                                                          ELSE NoEntry]
                          ELSE IF frame[q].ino = i /\ pc[q] = "read"
                               THEN [frame[q] EXCEPT !.torn = TRUE]
                               ELSE frame[q]]
           /\ written' = [written EXCEPT ![i] =
                            [val |-> frame[p].value,
                             mixed |-> \E q \in ThreadIds \ {p} :
                                          frame[q].ino = i /\ pc[q] \in {"write", "close"}]]
           /\ everStored' = [everStored EXCEPT ![k] = TRUE]
           /\ origin' = IF frame[p].op = "put_in_cache"
                        THEN [origin EXCEPT ![k] = [NoOrigin EXCEPT !.by = "put"]]
                        ELSE origin
           /\ removed' = [removed EXCEPT ![k] = NoRemoval]
    /\ pc' = [pc EXCEPT ![p] = "write"]
    /\ UNCHANGED <<Scenario, quota, cache_manager, wrapper, ret, computed, lastStored>>

\* A put_in_cache whose bytes never reach the file.
WriteLost(p) ==
    /\ p \in threads /\ pc[p] = "write"
    /\ frame' = [frame EXCEPT ![p].off = Len(dumps(frame[p].value))]
    /\ pc' = [pc EXCEPT ![p] = "close"]
    /\ UNCHANGED <<Scenario, removed, quota, cache_manager, files, inodes, wrapper, ret, History, written>>

\* put_in_cache: pickle.dump(obj_to_cache, f), one write to the file at a time;
\* when the value cannot be pickled or the write is refused, the exception
\* leaves the with statement, which closes the file
Write(p) ==
    /\ p \in threads /\ pc[p] = "write"
    /\ \E fail \in WriteFails :
         IF ~picklable(frame[p].value) \/ fail
         THEN /\ CloseFile(p, frame[p].ino)
              /\ frame' = Closed(p)
              /\ Finish(p, Raised(IF picklable(frame[p].value) THEN "OSError"
                                                                ELSE "AttributeError"))
              /\ UNCHANGED lastStored
         ELSE LET b == dumps(frame[p].value)
                  off == frame[p].off
                  n == Min(BlockSize, Len(b) - off)
              IN  /\ inodes' = [inodes EXCEPT ![frame[p].ino] =
                                   WriteAt(@, off, SubSeq(b, off + 1, off + n))]
                  /\ frame' = [frame EXCEPT ![p].off = off + n]
                  /\ pc' = [pc EXCEPT ![p] = IF off + n = Len(b) THEN "close" ELSE "write"]
                  /\ lastStored' = IF off + n = Len(b)
                                    THEN [lastStored EXCEPT
                                            ![frame[p].str_to_hash].wrote = frame[p].value]
                                    ELSE lastStored
                  /\ UNCHANGED <<ret, written>>
    /\ UNCHANGED <<Scenario, removed, quota, cache_manager, files, wrapper, origin,
                   computed, everStored>>

\* A cachify that returns what put_in_cache returns.
StoreResultNone(op, value) == Returned(<<>>)

\* What the call returns once the value is stored: put_in_cache returns None,
\* cachify returns return_value.
StoreResult(op, value) == IF op = "cachify" THEN Returned(value) ELSE Returned(<<>>)

\* put_in_cache: the with statement closes the file; the call returns
Close(p) ==
    /\ p \in threads /\ pc[p] = "close"
    /\ CloseFile(p, frame[p].ino)
    /\ frame' = Closed(p)
    /\ lastStored' = [lastStored EXCEPT ![frame[p].str_to_hash] =
                        [set |-> TRUE, val |-> frame[p].value,
                         over |-> @.set /\ @.val # frame[p].value,
                         alone |-> ~written[frame[p].ino].mixed,
                         wrote |-> @.wrote]]
    /\ Finish(p, StoreResult(frame[p].op, frame[p].value))
    /\ UNCHANGED <<Scenario, removed, quota, cache_manager, files, wrapper, origin, computed, everStored>>

\* The caller has the result and is free for its next call.
Return(p) ==
    /\ p \in threads /\ pc[p] = "done"
    /\ pc' = [pc EXCEPT ![p] = "idle"]
    /\ frame' = [frame EXCEPT ![p] = NoFrame]
    /\ ret' = [ret EXCEPT ![p] = NoRet]
    /\ UNCHANGED <<Scenario, removed, quota, cache_manager, files, inodes, wrapper, History, written>>

\* A restart that starts from an empty cache folder.
RestartEmptiesFolder(p) ==
    /\ Callable(p)
    /\ \A q \in threads : pc[q] = "idle"
    /\ files' = [path \in EntryPaths |-> 0]
    /\ inodes' = [i \in 1..NumInodes |-> <<>>]
    /\ wrapper' = [set |-> FALSE, str_to_hash |-> "", func |-> ""]
    /\ UNCHANGED <<Scenario, removed, cache_manager, pc, frame, ret, History, written>>

\* The process ends and a new one constructs a CacheManager over the same
\* folder: the files stay, the decorated functions are gone.
Restart(p) ==
    /\ Callable(p)
    /\ \A q \in threads : pc[q] = "idle"
    /\ cache_manager' = [constructed |-> isdir(cache_manager.cache_folder_path),
                         cache_folder_path |-> cache_manager.cache_folder_path]
    /\ wrapper' = [set |-> FALSE, str_to_hash |-> "", func |-> ""]
    /\ UNCHANGED <<Scenario, removed, files, inodes, pc, frame, ret, History, written>>

Next ==
    \E p \in ThreadIds :
        \/ \E path \in DOMAIN FsKind : Construct(p, path)
        \/ Restart(p)
        \/ \E k \in keys : HasInCache(p, k)
        \/ \E k \in keys : ClearFromCache(p, k)
        \/ \E k \in keys : RetrieveFromCache(p, k)
        \/ \E k \in keys, v \in Values \cup Unpicklable : PutInCache(p, k, v)
        \/ \E k \in keys, f \in funcs \cup FaultyFuncs, args \in ArgSets : Cachify(p, k, f, args)
        \/ \E k \in keys, f \in funcs \cup FaultyFuncs : Memoize(p, k, f)
        \/ \E args \in ArgSets : Wrapper(p, args)
        \/ Check(p)
        \/ CallFunc(p)
        \/ OpenRead(p)
        \/ Read(p)
        \/ CloseRead(p)
        \/ OpenWrite(p)
        \/ Write(p)
        \/ Close(p)
        \/ Return(p)

\* One thread calls the methods one after the other.
Spec == Init /\ [][Next]_vars

\* Two threads call the methods with no lock between them.
SpecConc == InitConc /\ [][Next]_vars

\* One thread calls the methods one after the other; stores can fail.
SpecFail == InitFail /\ [][Next]_vars

\* Two threads call the methods, each call under the lock of its key.
SpecLock == InitLock /\ [][Next]_vars

-----------------------------------------------------------------------------
(* The claims *)

\* The bytes of the entry of key k.
Content(k) == inodes[files[PathOf(k)]]

\* No store of key k is between its open and its close.
NotWriting(k) == \A p \in threads : ~(pc[p] \in {"write", "close"} /\ frame[p].str_to_hash = k)

\* C1: called one after the other with no remove in between, cachify runs
\* the computation at most once per key: the first call runs it, every later
\* call returns the value the first call returned and runs nothing, whatever
\* computation it was given.
C1_AtMostOncePerKey ==
    \A k \in Keys :
        /\ computed[k] <= 1
        /\ \A p \in threads :
             (/\ pc[p] = "done" /\ frame[p].op = "cachify" /\ frame[p].str_to_hash = k
              /\ origin[k].by \in {"cachify", "wrapper"})
             => /\ ret[p] = Returned(origin[k].val)
                /\ frame[p].ran = ~frame[p].hit
                /\ computed[k] = 1

\* A later call, given a computation that would raise, returned the first call's value.
C1_Witness ==
    \E p \in threads :
        /\ pc[p] = "done" /\ frame[p].op = "cachify" /\ frame[p].hit
        /\ frame[p].func = "raising_function"
        /\ origin[frame[p].str_to_hash].by = "cachify"
        /\ ret[p] = Returned(origin[frame[p].str_to_hash].val)

\* C2: a callable wrapped by memoize under a fixed key returns the result of
\* its first invocation whatever its later arguments, and the function body
\* runs exactly once.
C2_KeyAloneIsIdentity ==
    \A p \in threads :
        (/\ pc[p] = "done" /\ frame[p].op = "cachify" /\ frame[p].via = "wrapper"
         /\ origin[frame[p].str_to_hash].by = "wrapper"
         /\ origin[frame[p].str_to_hash].func = frame[p].func)
        => /\ ret[p] = Returned(expensive_function(origin[frame[p].str_to_hash].args))
           /\ computed[frame[p].str_to_hash] = 1

\* The second invocation, with other arguments, returned the first one's result.
C2_Witness ==
    \E p \in threads :
        /\ pc[p] = "done" /\ frame[p].op = "cachify" /\ frame[p].via = "wrapper"
        /\ origin[frame[p].str_to_hash].by = "wrapper"
        /\ origin[frame[p].str_to_hash].func = frame[p].func
        /\ origin[frame[p].str_to_hash].args # frame[p].args
        /\ ret[p] = Returned(expensive_function(origin[frame[p].str_to_hash].args))
        /\ ret[p].val # expensive_function(frame[p].args)

\* C3: when the computation given to cachify raises on an absent key, the
\* caller gets that error, nothing is stored, the key is still absent, and the
\* next cachify of the key runs its computation again.
C3_NoCachingOnFailure ==
    [][\A p \in threads :
         /\ (pc[p] = "call" /\ frame[p].func = "raising_function" /\ pc'[p] # "call")
            => /\ pc'[p] = "done" /\ ret'[p] = Raised("RuntimeError")
               /\ files' = files /\ inodes' = inodes
               /\ ~has_in_cache(frame[p].str_to_hash)'
         /\ (pc[p] = "check" /\ origin[frame[p].str_to_hash].by = "raise" /\ pc'[p] # "check")
            => pc'[p] = "call"]_vars

\* A computation raised for the key, and the next cachify is about to compute again.
C3_Witness ==
    \E p \in threads :
        /\ pc[p] = "call" /\ origin[frame[p].str_to_hash].by = "raise"
        /\ ~has_in_cache(frame[p].str_to_hash)

\* C4: the entry of a present key decodes to the value of the last store of
\* that key that completed, by put_in_cache or by cachify on a miss, and
\* retrieve_from_cache returns it; a store on a present key replaces the value.
C4_RoundTrip ==
    \A k \in Keys :
        /\ (has_in_cache(k) /\ NotWriting(k))
           => lastStored[k].set /\ loads(Content(k)) = Loaded(lastStored[k].val)
        /\ \A p \in threads :
             (/\ pc[p] = "done" /\ frame[p].op = "retrieve_from_cache"
              /\ frame[p].str_to_hash = k /\ ret[p] # OpenMissing)
             => lastStored[k].set /\ ret[p] = Returned(lastStored[k].val)

\* A load returned the value of a store that had replaced a different value.
C4_Witness ==
    \E p \in threads :
        /\ pc[p] = "done" /\ frame[p].op = "retrieve_from_cache"
        /\ lastStored[frame[p].str_to_hash].over
        /\ ret[p] = Returned(lastStored[frame[p].str_to_hash].val)

\* C5: a key that was never stored is absent; it is present right after
\* put_in_cache and absent right after clear_from_cache; a key becomes present
\* only by the open of a store and absent only by a remove.
C5_ExistenceTransitions ==
    [][\A k \in Keys :
         /\ ~everStored[k] => ~has_in_cache(k)
         /\ ~everStored'[k] => ~has_in_cache(k)'
         /\ \A p \in threads :
              (pc[p] # "done" /\ pc'[p] = "done" /\ frame'[p].str_to_hash = k)
              => /\ frame'[p].op = "put_in_cache" => has_in_cache(k)'
                 /\ (frame'[p].op = "clear_from_cache" /\ ret'[p].status = "return")
                    => ~has_in_cache(k)'
         /\ (~has_in_cache(k) /\ has_in_cache(k)')
            => \E p \in threads :
                 pc[p] = "open_wb" /\ pc'[p] = "write" /\ frame[p].str_to_hash = k
         /\ (has_in_cache(k) /\ ~has_in_cache(k)')
            => \E p \in threads :
                 /\ pc[p] = "idle" /\ pc'[p] = "done"
                 /\ frame'[p].op = "clear_from_cache" /\ frame'[p].str_to_hash = k]_vars

\* A key was stored, then removed, and is absent.
C5_Witness ==
    \E p \in threads :
        /\ pc[p] = "done" /\ frame[p].op = "clear_from_cache" /\ ret[p].status = "return"
        /\ everStored[frame[p].str_to_hash]
        /\ ~has_in_cache(frame[p].str_to_hash)

\* C6: clear_from_cache and retrieve_from_cache on an absent key raise
\* FileNotFoundError (the NotFoundError of the specification) and change no
\* entry of the cache.
C6_MissingKeyErrors ==
    [][\A p \in threads :
         /\ (/\ pc[p] = "idle" /\ pc'[p] = "done" /\ frame'[p].op = "clear_from_cache"
             /\ ~has_in_cache(frame'[p].str_to_hash))
            => ret'[p] = Raised("FileNotFoundError") /\ files' = files /\ inodes' = inodes
         /\ (/\ pc[p] = "open_rb" /\ frame[p].op = "retrieve_from_cache" /\ pc'[p] # "open_rb"
             /\ ~has_in_cache(frame[p].str_to_hash))
            => /\ pc'[p] = "done" /\ ret'[p] = Raised("FileNotFoundError")
               /\ files' = files /\ inodes' = inodes]_vars

\* A key that was stored and then removed: removing it again failed.
C6_Witness ==
    \E p \in threads :
        /\ pc[p] = "done" /\ frame[p].op = "clear_from_cache"
        /\ ret[p] = Raised("FileNotFoundError")
        /\ everStored[frame[p].str_to_hash]

\* C7: on an absent key with a computation that succeeds, cachify runs the
\* computation once on the arguments given, stores the result under the key
\* and returns it: right after, the key is present and holds what was returned.
C7_MissPath ==
    \A p \in threads :
        (/\ pc[p] = "done" /\ frame[p].op = "cachify" /\ ~frame[p].hit
         /\ frame[p].func = "expensive_function")
        => /\ ret[p] = Returned(expensive_function(frame[p].args))
           /\ frame[p].ran /\ computed[frame[p].str_to_hash] = 1
           /\ has_in_cache(frame[p].str_to_hash)
           /\ loads(Content(frame[p].str_to_hash)) = Loaded(ret[p].val)
           /\ lastStored[frame[p].str_to_hash].val = ret[p].val

\* A cachify on an absent key has computed, stored and returned.
C7_Witness ==
    \E p \in threads :
        /\ pc[p] = "done" /\ frame[p].op = "cachify" /\ ~frame[p].hit /\ frame[p].ran
        /\ ret[p].status = "return"
        /\ has_in_cache(frame[p].str_to_hash)

\* Both threads are back from a cachify of key k that found the key absent.
BothMissed(k) ==
    \A p \in ThreadIds :
        /\ pc[p] = "done" /\ frame[p].op = "cachify" /\ frame[p].str_to_hash = k
        /\ ~frame[p].hit /\ ret[p].status = "return"

\* Both callers of BothMissed computed with no removal of the key since, so
\* that each had found the key absent before the other opened the file.
Raced(k) == BothMissed(k) /\ computed[k] = 2

\* C8, as claimed: when two callers of cachify both find the key absent, both
\* compute and both store, the entry holds in the end the value written by
\* the store that completed last (the last to write and the last to return).
C8_LastStoreWins ==
    \A k \in Keys :
        (Raced(k) /\ lastStored[k].wrote = lastStored[k].val)
        => has_in_cache(k) /\ loads(Content(k)) = Loaded(lastStored[k].val)

\* C8, amended: when two callers of cachify both find the key absent, both
\* compute, both store and each returns its own result; the entry holds in the
\* end the value of the store that completed last when that store did not
\* overlap the other one.
C8_RaceOutcome ==
    \A k \in Keys :
        Raced(k)
        => /\ \A p \in ThreadIds :
                frame[p].ran /\ ret[p] = Returned(expensive_function(frame[p].args))
           /\ has_in_cache(k)
           /\ lastStored[k].alone => loads(Content(k)) = Loaded(lastStored[k].val)

\* Both callers computed and stored one after the other, and t1 returned a
\* value that is not the one cached.
C8_Witness ==
    \E k \in Keys :
        /\ Raced(k)
        /\ lastStored[k].alone
        /\ ret["t1"].val # ret["t2"].val
        /\ loads(Content(k)) = Loaded(ret["t2"].val)

\* Thread p is back from a load of an entry it found: retrieve_from_cache, or
\* the hit path of cachify.
ReadDone(p) ==
    /\ pc[p] = "done"
    /\ frame[p].op = "retrieve_from_cache" \/ (frame[p].op = "cachify" /\ frame[p].hit)
    /\ ret[p] # OpenMissing

\* The values a store of the model is given.
StoredValues == Values \cup { expensive_function(args) : args \in ArgSets }

\* C9, as claimed: a load that runs while the same key is stored returns a
\* value that was stored in full, or raises; it never returns another value.
C9_WholeValueOrError ==
    \A p \in threads :
        ReadDone(p) => ret[p].status = "raise" \/ ret[p].val \in StoredValues

\* C9, amended: a load of a file that no store emptied while the load had it
\* open, and that only one store at a time wrote, returns the value of that
\* store or raises EOFError or UnpicklingError (the CorruptionError of the
\* specification) on an incomplete payload.
C9_UntornReadWholeOrError ==
    \A p \in threads :
        (ReadDone(p) /\ ~frame[p].torn)
        => \/ ret[p] = Returned(frame[p].expect)
           \/ ret[p].status = "raise" /\ ret[p].exc \in {"EOFError", "UnpicklingError"}

\* A load found the entry of a store that had not yet written all of it, and raised.
C9_Witness ==
    \E p \in threads, q \in threads :
        /\ ReadDone(p) /\ ~frame[p].torn
        /\ ret[p] = Raised("UnpicklingError")
        /\ pc[q] = "write" /\ frame[q].str_to_hash = frame[p].str_to_hash

\* C10: __init__ raises AssertionError (the ConfigurationError of the
\* specification) on a path that is no directory, so a constructed
\* CacheManager is over a directory; no later call changes its path.
C10_ConstructValidates ==
    [][/\ cache_manager.constructed => FsKind[cache_manager.cache_folder_path] = "dir"
       /\ cache_manager'.constructed => FsKind[cache_manager'.cache_folder_path] = "dir"
       /\ \A p \in threads :
            (/\ pc[p] = "idle" /\ frame'[p].op = "__init__"
             /\ FsKind[frame'[p].cache_folder_path] # "dir")
            => ret'[p] = Raised("AssertionError") /\ ~cache_manager'.constructed
       /\ cache_manager.constructed => cache_manager' = cache_manager]_vars

\* A construction over a path that is no directory has failed.
C10_Witness ==
    \E p \in threads :
        /\ pc[p] = "done" /\ frame[p].op = "__init__"
        /\ FsKind[frame[p].cache_folder_path] # "dir"
        /\ ret[p] = Raised("AssertionError")
        /\ ~cache_manager.constructed

\* The entry of key k exists and its bytes do not unpickle.
Corrupt(k) == has_in_cache(k) /\ ~loads(Content(k)).ok

\* C11: an entry whose bytes do not unpickle is surfaced and never repaired:
\* retrieve_from_cache raises the error of pickle.load (EOFError or
\* UnpicklingError, the CorruptionError of the specification) and leaves the
\* entry as it is; cachify on the key takes the hit path and raises the same
\* error, calls no func, and neither rewrites nor removes the entry.
C11_CorruptSurfaced ==
    [][\A p \in threads :
         LET k == frame[p].str_to_hash
         IN  /\ (pc[p] = "check" /\ Corrupt(k) /\ pc'[p] # "check")
                => pc'[p] = "open_rb" /\ files' = files /\ inodes' = inodes
             /\ (pc[p] \in {"open_rb", "read", "close_rb"} /\ Corrupt(k))
                => /\ files' = files /\ inodes' = inodes /\ computed' = computed
                   /\ pc'[p] \in {"read", "close_rb", "done"}
                   /\ pc'[p] = "done"
                      => /\ ret'[p] = Raised(loads(Content(k)).exc)
                         /\ ret'[p].exc \in {"EOFError", "UnpicklingError"}
                         /\ ~frame'[p].ran]_vars

\* A store failed and left bytes that do not unpickle; a cachify of the key
\* raised the error of pickle.load and called nothing.
C11_Witness ==
    \E p \in threads :
        /\ pc[p] = "done" /\ frame[p].op = "cachify" /\ frame[p].hit /\ ~frame[p].ran
        /\ Corrupt(frame[p].str_to_hash)
        /\ Content(frame[p].str_to_hash) # <<>>
        /\ ret[p] = Raised("UnpicklingError")

\* A step that opens the entry of key k for writing, or removes it.
StoreOrRemove(k) ==
    \E p \in threads :
        /\ frame'[p].str_to_hash = k
        /\ \/ pc[p] = "open_wb" /\ pc'[p] = "write"
           \/ pc[p] = "idle" /\ frame'[p].op = "clear_from_cache"

\* A step that ends the process and starts another on the same folder.
Restarted == pc' = pc /\ quota' < quota /\ ~wrapper'.set

\* C12: an entry that is present and stored in full stays present with the
\* same bytes through every step that is neither a store nor a remove of its
\* key: calls on other keys, reads, and the start of a new process with a new
\* CacheManager on the folder; a cachify that finds it returns its value and
\* calls no func.
C12_PersistsUntilStoreOrRemove ==
    [][/\ \A k \in Keys :
            (has_in_cache(k) /\ NotWriting(k) /\ ~StoreOrRemove(k))
            => has_in_cache(k)' /\ Content(k)' = Content(k)
       /\ Restarted => files' = files /\ inodes' = inodes /\ cache_manager' = cache_manager
       /\ \A p \in threads :
            (pc[p] = "close_rb" /\ pc'[p] = "done" /\ frame[p].op = "cachify")
            => /\ ret'[p] = Returned(lastStored[frame[p].str_to_hash].val)
               /\ ~frame'[p].ran /\ computed' = computed]_vars

\* A decorated function stored the entry; after a restart (the decorated
\* function is gone) and with the other key stored too, a cachify of the key
\* returned the entry's value.
C12_Witness ==
    \E p \in threads, k \in Keys, k2 \in Keys :
        /\ k2 # k /\ has_in_cache(k2)
        /\ origin[k].by = "wrapper" /\ ~wrapper.set
        /\ pc[p] = "done" /\ frame[p].op = "cachify" /\ frame[p].via = "cachify"
        /\ frame[p].str_to_hash = k /\ frame[p].hit /\ ~frame[p].ran
        /\ ret[p] = Returned(origin[k].val)

\* The entry of key k as a store finds it: whether it exists, and its bytes.
Entry(k) == IF has_in_cache(k) THEN [has |-> TRUE, data |-> Content(k)] ELSE NoEntry

\* Thread p is back from a store that failed: pickle.dump raised, on the value
\* or on the write.
StoreFailed(p) ==
    /\ pc[p] = "done" /\ frame[p].op \in {"put_in_cache", "cachify"}
    /\ ret[p].status = "raise" /\ ret[p].exc \in {"AttributeError", "OSError"}

\* C13, as claimed: in sequential use, failing stores included, every entry
\* that exists holds the complete pickle of one value, so that has_in_cache
\* implies that retrieve_from_cache succeeds; a store that fails leaves the
\* entry of its key as it was before the call.
C13_EntriesWellFormed ==
    /\ \A k \in Keys : (has_in_cache(k) /\ NotWriting(k)) => loads(Content(k)).ok
    /\ \A p \in threads : StoreFailed(p) => Entry(frame[p].str_to_hash) = frame[p].prior

\* A put_in_cache of a value that cannot be pickled, on a key that held a
\* value, has raised and left the entry empty.
C13_Witness ==
    \E p \in threads :
        /\ StoreFailed(p) /\ frame[p].op = "put_in_cache" /\ frame[p].value = Lambda
        /\ frame[p].prior.has /\ loads(frame[p].prior.data).ok
        /\ has_in_cache(frame[p].str_to_hash)
        /\ Content(frame[p].str_to_hash) = <<>>

\* C14: has_in_cache, retrieve_from_cache (whether it returns or raises) and
\* cachify on a present key change no file of the cache: every key keeps its
\* presence and its bytes; the hit path of cachify calls no func, stores
\* nothing and returns the cached value, not the one its func would return.
C14_ReadsChangeNothing ==
    [][\A p \in threads :
         LET k == frame[p].str_to_hash
         IN  /\ (/\ pc[p] = "idle" /\ pc'[p] # "idle"
                 /\ frame'[p].op \in {"has_in_cache", "retrieve_from_cache", "cachify"})
                => files' = files /\ inodes' = inodes
             /\ (pc[p] = "check" /\ has_in_cache(k) /\ pc'[p] # "check")
                => files' = files /\ inodes' = inodes /\ pc'[p] = "open_rb"
             /\ (/\ pc[p] \in {"open_rb", "read", "close_rb"}
                 /\ <<pc'[p], frame'[p]>> # <<pc[p], frame[p]>>)
                => /\ files' = files /\ inodes' = inodes
                   /\ computed' = computed /\ lastStored' = lastStored
                   /\ pc'[p] \in {"read", "close_rb", "done"}
                   /\ (pc'[p] = "done" /\ ret'[p].status = "return")
                      => ret'[p] = Returned(lastStored[k].val) /\ ~frame'[p].ran]_vars

\* A cachify on a present key returned the cached value, which is not the one
\* its func returns on its arguments, and the entry still holds that value.
C14_Witness ==
    \E p \in threads :
        /\ pc[p] = "done" /\ frame[p].op = "cachify" /\ frame[p].hit /\ ~frame[p].ran
        /\ frame[p].func = "expensive_function"
        /\ ret[p].status = "return" /\ ret[p].val # expensive_function(frame[p].args)
        /\ loads(Content(frame[p].str_to_hash)) = Loaded(ret[p].val)

\* The cache folder holds one file per present key and nothing else: the keys
\* have paths of their own, the folder lists as many files as keys are
\* present, and no file has two names.  A removed file that a call still holds
\* open is not in the folder.
OneFilePerKey ==
    /\ \A k \in Keys, k2 \in Keys : k # k2 => PathOf(k) # PathOf(k2)
    /\ Cardinality({path \in DOMAIN files : files[path] # 0})
         = Cardinality({k \in Keys : has_in_cache(k)})
    /\ \A i \in 1..NumInodes : Cardinality({path \in DOMAIN files : files[path] = i}) <= 1

\* C15: a step of a call on one key (put_in_cache, clear_from_cache, cachify,
\* a decorated function) leaves the presence and the bytes of every other key
\* unchanged, and the folder holds exactly one file per present key.
C15_KeyIsolation ==
    [][/\ OneFilePerKey /\ OneFilePerKey'
       /\ \A p \in threads, k2 \in Keys :
            frame'[p].str_to_hash # k2
            => /\ has_in_cache(k2)' = has_in_cache(k2)
               /\ has_in_cache(k2) => Content(k2)' = Content(k2)]_vars

\* One key was stored and removed while the other key kept its own value.
C15_Witness ==
    \E p \in threads, k2 \in Keys :
        /\ pc[p] = "done" /\ frame[p].op = "clear_from_cache" /\ ret[p].status = "return"
        /\ frame[p].str_to_hash # k2
        /\ has_in_cache(k2) /\ loads(Content(k2)) = Loaded(lastStored[k2].val)
        /\ ~has_in_cache(frame[p].str_to_hash)

\* C16: when the callers hold a lock per key around each call, then between
\* two removals of a key its func is called at most once, every cachify of the
\* key returns the value of that one call, the entry holds that value, and no
\* cachify raises the error of a partly written entry: it raises only what its
\* own func raises.
C16_LockRestoresAtMostOnce ==
    \A k \in Keys :
        /\ computed[k] <= 1
        /\ \A p \in threads :
             (pc[p] = "done" /\ frame[p].op = "cachify" /\ frame[p].str_to_hash = k)
             => /\ ret[p].status = "raise"
                   => ret[p] = Raised("RuntimeError") /\ frame[p].func = "raising_function"
                /\ ret[p].status = "return"
                   => has_in_cache(k) /\ loads(Content(k)) = Loaded(ret[p].val)
                /\ origin[k].by \in {"cachify", "wrapper"}
                   => /\ ret[p] = Returned(origin[k].val)
                      /\ frame[p].ran = ~frame[p].hit
                      /\ computed[k] = 1

\* A cachify returned the value another call had computed from other
\* arguments, while the other thread is inside a call on the other key.
C16_Witness ==
    \E p \in threads, q \in threads :
        /\ p # q /\ locking
        /\ pc[p] = "done" /\ frame[p].op = "cachify" /\ frame[p].hit
        /\ origin[frame[p].str_to_hash].by = "cachify"
        /\ origin[frame[p].str_to_hash].args # frame[p].args
        /\ ret[p] = Returned(origin[frame[p].str_to_hash].val)
        /\ pc[q] \in {"write", "read"} /\ frame[q].str_to_hash # frame[p].str_to_hash

\* C17: once clear_from_cache has removed a key, the key is absent until it is
\* stored again, and the next cachify of the key (direct or through a decorated
\* function) misses: it calls its func, and when func returns it stores and
\* returns that new result, not the value the entry held before the removal.
C17_RemovalResets ==
    /\ \A k \in Keys : removed[k].set => ~has_in_cache(k)
    /\ \A p \in threads :
         (pc[p] = "done" /\ frame[p].op = "cachify" /\ frame[p].gone.set)
         => /\ ~frame[p].hit /\ frame[p].ran
            /\ IF frame[p].func = "raising_function"
               THEN ret[p] = Raised("RuntimeError")
               ELSE /\ ret[p] = Returned(expensive_function(frame[p].args))
                    /\ has_in_cache(frame[p].str_to_hash)
                    /\ loads(Content(frame[p].str_to_hash)) = Loaded(ret[p].val)

\* A decorated function, called after its key was removed, computed and
\* returned a value that is not the one removed, and the entry holds it.
C17_Witness ==
    \E p \in threads :
        /\ pc[p] = "done" /\ frame[p].op = "cachify" /\ frame[p].via = "wrapper"
        /\ frame[p].gone.set /\ frame[p].gone.was.ok
        /\ frame[p].ran /\ ret[p].status = "return"
        /\ ret[p].val # frame[p].gone.was.val
        /\ loads(Content(frame[p].str_to_hash)) = Loaded(ret[p].val)

\* What a cachify(str_to_hash, func, *args) that is back has done, whoever
\* called it: on a present key it returned the entry's value and called
\* nothing; on an absent key it called func once on args and either stored and
\* returned the result or let the error of func through and stored nothing.
CachifyOutcome(p) ==
    LET k == frame[p].str_to_hash
    IN  IF frame[p].hit
        THEN /\ ~frame[p].ran
             /\ ret[p] = Returned(lastStored[k].val)
             /\ loads(Content(k)) = Loaded(ret[p].val)
        ELSE /\ frame[p].ran /\ ~frame[p].prior.has
             /\ IF frame[p].func = "raising_function"
                THEN ret[p] = Raised("RuntimeError") /\ ~has_in_cache(k)
                ELSE /\ ret[p] = Returned(expensive_function(frame[p].args))
                     /\ loads(Content(k)) = Loaded(ret[p].val)

\* C18: memoize(str_to_hash)(func) builds the wrapper and nothing else: no
\* file is read or written and func is not called.  A call of the wrapper is
\* a cachify of the wrapper's key and func on the call's arguments: same
\* return value, same error, same effect on the cache, same number of calls of
\* func; the wrapper finds what put_in_cache or cachify stored under its key.
C18_WrapperIsCachify ==
    [][/\ (wrapper' # wrapper /\ wrapper'.set)
          => /\ files' = files /\ inodes' = inodes /\ computed' = computed
             /\ pc' = pc /\ frame' = frame /\ ret' = ret
       /\ \A p \in threads :
            /\ (pc[p] = "idle" /\ frame'[p].op = "cachify" /\ frame'[p].via = "wrapper")
               => /\ wrapper.set /\ pc'[p] = "check"
                  /\ \E args \in ArgSets :
                       frame'[p] = [CachifyFrame("cachify", wrapper.str_to_hash,
                                                 wrapper.func, args) EXCEPT !.via = "wrapper"]
                  /\ files' = files /\ inodes' = inodes /\ computed' = computed
            /\ (pc'[p] = "done" /\ frame'[p].op = "cachify") => CachifyOutcome(p)']_vars

\* A value was stored under the key by put_in_cache; the decorated function,
\* called afterwards, returned it and its func was not run.
C18_Witness ==
    \E p \in threads :
        /\ pc[p] = "done" /\ frame[p].op = "cachify" /\ frame[p].via = "wrapper"
        /\ origin[frame[p].str_to_hash].by = "put"
        /\ frame[p].hit /\ ~frame[p].ran
        /\ frame[p].func = "expensive_function"
        /\ ret[p] = Returned(lastStored[frame[p].str_to_hash].val)
        /\ ret[p].val # expensive_function(frame[p].args)

\* The location of key k spelled out: the folder, a separator, the sha256
\* digest of the key in hexadecimal, ".pickle".
Locate(k) == cache_manager.cache_folder_path \o "/" \o str_hash_mapping[k] \o ".pickle"

\* The inode at the location of key k, 0 when there is no file there.
At(fs, k) == IF Locate(k) \in DOMAIN fs THEN fs[Locate(k)] ELSE 0

\* C19: the path of a key is the cache folder joined with the digest of the
\* key and ".pickle", whenever it is computed; has_in_cache, retrieve_from_cache,
\* put_in_cache and clear_from_cache all act on the file at this path and on no
\* other: the entry a store writes is the one has_in_cache sees,
\* retrieve_from_cache reads and clear_from_cache removes.
C19_OneLocationPerKey ==
    [][\A p \in threads :
         LET k == frame'[p].str_to_hash
         IN  /\ \A k2 \in Keys : cache_manager.constructed => PathOf(k2) = Locate(k2)
             /\ \A path \in DOMAIN files :
                  (\/ files'[path] # files[path]
                   \/ files[path] # 0 /\ inodes'[files[path]] # inodes[files[path]])
                  => k \in Keys /\ path = Locate(k)
             /\ (pc[p] = "idle" /\ pc'[p] = "done" /\ frame'[p].op = "has_in_cache")
                => ret'[p] = ReturnedBool(At(files, k) # 0)
             /\ (pc[p] = "idle" /\ pc'[p] = "done" /\ frame'[p].op = "clear_from_cache")
                => /\ ret'[p].status = "return" <=> At(files, k) # 0
                   /\ At(files', k) = 0
             /\ (pc[p] = "open_rb" /\ pc'[p] # "open_rb")
                => /\ pc'[p] = "read" <=> At(files, k) # 0
                   /\ pc'[p] = "read" => frame'[p].ino = At(files, k)
             /\ (pc[p] = "open_wb" /\ pc'[p] # "open_wb")
                => At(files', k) # 0 /\ frame'[p].ino = At(files', k)]_vars

\* has_in_cache answered True for a key whose file, at the spelled out
\* location, holds the value a store wrote.
C19_Witness ==
    \E p \in threads :
        /\ pc[p] = "done" /\ frame[p].op = "has_in_cache" /\ ret[p] = ReturnedBool(TRUE)
        /\ At(files, frame[p].str_to_hash) # 0
        /\ loads(inodes[At(files, frame[p].str_to_hash)])
             = Loaded(lastStored[frame[p].str_to_hash].val)

====
